---- MODULE Spec2Model ----
(***************************************************************************)
(* State-machine model of the QR scanner component                         *)
(* (src/components/Scanner.tsx, the tracking variant, lines 1-633, and the *)
(* single-shot variant, lines 634-899) and of the payload helpers of       *)
(* src/utils/qrUtils.ts.                                                   *)
(*                                                                         *)
(* JavaScript runs one task at a time: every action below is one           *)
(* uninterrupted run of a handler, from its entry (or from the await that  *)
(* resumed it) to its next await or its return.                            *)
(*                                                                         *)
(* Strings are sequences of one-character strings, so that startsWith can  *)
(* be computed.  Coordinates are fixed-point numbers in tenths of a pixel.  *)
(* React state and the ref an effect mirrors it into are updated by the    *)
(* same commit, so they are one variable each (autoActionRef), but for the *)
(* active prop, which the claims name.                                     *)
(***************************************************************************)
EXTENDS Integers, Sequences, FiniteSets, TLC

(***************************************************************************)
(* Bounds of the model.                                                    *)
(***************************************************************************)
\* most ticks that may be scheduled or executing at the same moment
MaxTicks == 2
\* most play() promises of torn-down activations that may be outstanding
MaxStalePlay == 1
\* number of instants 1/30 s apart, after the first one, that Date.now() can return
MaxBurst == 4
\* length of the run of identical ticks that the end-to-end history follows
MaxStreak == 5
\* most consecutive smoothing updates that the tracker history follows
MaxSmooth == 2
\* most setTimeout callbacks of the single-shot variant that may be pending
MaxTimeouts == 2

(***************************************************************************)
(* Program constants.                                                      *)
(***************************************************************************)
\* cooldown of the deduplication, in ms
CooldownMs == 2000
\* the frame period of the end-to-end scenario, in ms (30 ticks per second)
TickMs == 1000 \div 30
\* blend factor of the corner smoothing, in tenths
SmoothFactor == 4
\* blend factor of the earliest variant (src/unnamed/part_000), in tenths
SmoothFactorEarly == 3
\* focus margin, in percent of the frame's width and height
MarginPct == 20
\* dimensions of the video frame, in pixels
videoWidth == 100
videoHeight == 100

(***************************************************************************)
(* Payload strings.                                                        *)
(***************************************************************************)
Null == <<"null">>

PayloadA == <<"h","t","t","p","s",":","/","/","a">>
PayloadB == <<"g","e","o",":","1",",","2">>
Payloads == {PayloadA, PayloadB}

StartsWith(s, prefix) ==
  /\ Len(s) >= Len(prefix)
  /\ SubSeq(s, 1, Len(prefix)) = prefix

\* the string in lower case, for the letters the prefixes use
LowerCase(data) ==
  LET low(ch) == CASE ch = "H" -> "h" [] ch = "T" -> "t" [] ch = "P" -> "p"
                   [] ch = "S" -> "s" [] ch = "W" -> "w" [] ch = "M" -> "m"
                   [] ch = "A" -> "a" [] ch = "I" -> "i" [] ch = "L" -> "l"
                   [] ch = "O" -> "o" [] ch = "E" -> "e" [] ch = "G" -> "g"
                   [] ch = "F" -> "f" [] OTHER -> ch
  IN [i \in 1..Len(data) |-> low(data[i])]

\* a classification that ignores the case of the prefix
detectQRTypeAnyCase(data) ==
  LET d == LowerCase(data)
  IN IF \/ StartsWith(d, <<"h","t","t","p",":","/","/">>)
        \/ StartsWith(d, <<"h","t","t","p","s",":","/","/">>)
        \/ StartsWith(d, <<"w","w","w",".">>) THEN "URL"
     ELSE IF StartsWith(d, <<"m","a","i","l","t","o",":">>) THEN "EMAIL"
     ELSE IF StartsWith(d, <<"t","e","l",":">>) THEN "PHONE"
     ELSE IF StartsWith(d, <<"w","i","f","i",":">>) THEN "WIFI"
     ELSE IF StartsWith(d, <<"g","e","o",":">>) THEN "GEO"
     ELSE "TEXT"

detectQRType(data) ==
  IF \/ StartsWith(data, <<"h","t","t","p",":","/","/">>)
     \/ StartsWith(data, <<"h","t","t","p","s",":","/","/">>)
     \/ StartsWith(data, <<"w","w","w",".">>) THEN "URL"
  ELSE IF StartsWith(data, <<"m","a","i","l","t","o",":">>) THEN "EMAIL"
  ELSE IF StartsWith(data, <<"t","e","l",":">>) THEN "PHONE"
  ELSE IF StartsWith(data, <<"W","I","F","I",":">>) THEN "WIFI"
  ELSE IF StartsWith(data, <<"g","e","o",":">>) THEN "GEO"
  ELSE "TEXT"

NoResult == [data |-> Null, type |-> "NONE"]

\* `WIFI:T:${encryption};S:${ssid};P:${pass};;`
generateWifiString(ssid, pass, encryption) ==
  <<"W","I","F","I",":","T",":">> \o encryption \o <<";","S",":">> \o ssid
    \o <<";","P",":">> \o pass \o <<";",";">>

\* data.match(/P:([^;]+)/): the positions after a "P:" that is followed by a
\* character other than ";"
PassMatchStarts(data) ==
  { i \in 3..Len(data) : data[i - 2] = "P" /\ data[i - 1] = ":" /\ data[i] # ";" }

\* the end of the longest run without ";" that starts at position i
RunEnd(data, i) ==
  LET stops == { j \in i..Len(data) : data[j] = ";" }
  IN IF stops = {} THEN Len(data)
     ELSE (CHOOSE j \in stops : \A k \in stops : j <= k) - 1

\* passMatch[1] of the first match, Null when there is no match
passMatch(data) ==
  LET starts == PassMatchStarts(data)
  IN IF starts = {} THEN Null
     ELSE LET i == CHOOSE a \in starts : \A b \in starts : a <= b
          IN SubSeq(data, i, RunEnd(data, i))

\* a payload that is a URL without a host: "http://"
PayloadBad == <<"h","t","t","p",":","/","/">>

\* the text of s after its first n characters
Drop(s, n) == SubSeq(s, n + 1, Len(s))

\* the URL parser of window.open and of location.href accepts the string:
\* an http or https URL needs a host, the text between "//" and the first
\* of "/", "?" and "#"
UrlParses(url) ==
  LET rest == IF StartsWith(url, <<"h","t","t","p","s",":","/","/">>) THEN Drop(url, 8)
              ELSE IF StartsWith(url, <<"h","t","t","p",":","/","/">>) THEN Drop(url, 7)
              ELSE url
  IN Len(rest) > 0 /\ rest[1] \notin {"/", "?", "#"}

\* performAction: "ok" when it returns, "throw" when it raises.  Only
\* window.open raises, with a SyntaxError for a URL it cannot parse; the
\* clipboard write is caught in safeCopy, and a blocked popup is a null
\* result.
performAction(data, type) ==
  IF type = "URL"
    THEN LET url == IF StartsWith(data, <<"w","w","w",".">>)
                      THEN <<"h","t","t","p","s",":","/","/">> \o data
                      ELSE data
         IN IF UrlParses(url) THEN "ok" ELSE "throw"
  ELSE "ok"

(***************************************************************************)
(* Feedback.                                                               *)
(***************************************************************************)
FeedbackModes == {"SILENT", "VIBRATE", "SOUND"}

\* a feedback that plays the tone in every mode but SILENT
triggerFeedbackLoud(mode, hasVibrate, hasAudio) ==
  [ pulse |-> mode # "SILENT" /\ hasVibrate,
    tone  |-> mode # "SILENT" /\ hasAudio ]

\* triggerFeedback: what it emits in the given mode
\*   hasVibrate: navigator.vibrate exists
\*   hasAudio:   playScanSound can create its AudioContext; if it cannot, the
\*               exception is caught and logged
triggerFeedback(mode, hasVibrate, hasAudio) ==
  IF mode = "SILENT" THEN [pulse |-> FALSE, tone |-> FALSE]
  ELSE [ pulse |-> hasVibrate,
         tone  |-> mode = "SOUND" /\ hasAudio ]

(***************************************************************************)
(* Geometry: corner points, focus gate, smoothing.                         *)
(***************************************************************************)
Pt(px, py) == [x |-> px, y |-> py]

\* a square code of 20 px whose top-left corner is at (ox, oy), in tenths
Square(ox, oy) ==
  << Pt(ox, oy), Pt(ox + 200, oy), Pt(ox + 200, oy + 200), Pt(ox, oy + 200) >>

\* two codes in the middle of the frame, 0.3 px apart, and one at its edge
PoseCentre == Square(400, 400)
PoseNear == Square(403, 403)
PoseEdge == Square(0, 400)
Poses == {PoseCentre, PoseNear, PoseEdge}

NoCorners == << >>

Center(points) ==
  Pt((points[1].x + points[3].x) \div 2, (points[1].y + points[3].y) \div 2)

\* a focus area whose edges belong to it
isPointInFocusAreaInclusive(point, vWidth, vHeight) ==
  LET marginX == (vWidth * 10 * MarginPct) \div 100
      marginY == (vHeight * 10 * MarginPct) \div 100
  IN /\ point.x >= marginX
     /\ point.x <= vWidth * 10 - marginX
     /\ point.y >= marginY
     /\ point.y <= vHeight * 10 - marginY

\* a focus area whose margin is a number of pixels, not a share of the frame
isPointInFocusAreaFixedMargin(point, vWidth, vHeight) ==
  LET marginX == 10 * MarginPct
      marginY == 10 * MarginPct
  IN /\ point.x > marginX
     /\ point.x < vWidth * 10 - marginX
     /\ point.y > marginY
     /\ point.y < vHeight * 10 - marginY

isPointInFocusArea(point, vWidth, vHeight) ==
  LET marginX == (vWidth * 10 * MarginPct) \div 100
      marginY == (vHeight * 10 * MarginPct) \div 100
  IN /\ point.x > marginX
     /\ point.x < vWidth * 10 - marginX
     /\ point.y > marginY
     /\ point.y < vHeight * 10 - marginY

\* a blend that starts from the new point
lerpSwapped(start, end, factor) == end + ((start - end) * factor) \div 10

lerp(start, end, factor) == start + ((end - start) * factor) \div 10

\* a tracker that smooths a first acquisition from the origin
drawLensCornersNoSnap(current, points) ==
  LET base == IF current = << >> THEN [i \in 1..4 |-> Pt(0, 0)] ELSE current
  IN IF Len(points) < 4 THEN current
     ELSE [i \in 1..4 |-> Pt(lerp(base[i].x, points[i].x, SmoothFactor),
                             lerp(base[i].y, points[i].y, SmoothFactor))]

\* the tracker update of drawLensCorners: the new value of currentCornersRef
drawLensCorners(current, points) ==
  IF Len(points) < 4 THEN current
  ELSE IF current = NoCorners THEN points
  ELSE [i \in 1..4 |-> Pt(lerp(current[i].x, points[i].x, SmoothFactor),
                          lerp(current[i].y, points[i].y, SmoothFactor))]

\* drawLensCorners of the earliest variant: the same update with factor 0.3
drawLensCornersEarly(current, points) ==
  IF Len(points) < 4 THEN current
  ELSE IF current = NoCorners THEN points
  ELSE [i \in 1..4 |-> Pt(lerp(current[i].x, points[i].x, SmoothFactorEarly),
                          lerp(current[i].y, points[i].y, SmoothFactorEarly))]

\* codes 10 px apart: blends between them are exact in tenths of a pixel
\* for MaxSmooth consecutive updates
GridPoses ==
  { Square(300, 300), Square(400, 300), Square(300, 400), Square(500, 500) }

(***************************************************************************)
(* Results of one decoder run on one frame.                                *)
(***************************************************************************)
NotFound == [kind |-> "none", data |-> Null, points |-> NoCorners]
Throws == [kind |-> "throw", data |-> Null, points |-> NoCorners]
Code(payload, pose) == [kind |-> "code", data |-> payload, points |-> pose]

\* the answers a decoder gives in Spec, and those it gives in SpecE2E
DecodeResults ==
  { NotFound, Throws, Code(PayloadA, PoseCentre), Code(PayloadB, PoseCentre),
    Code(PayloadA, PoseEdge) }
E2EResults == DecodeResults \cup {Code(PayloadA, PoseNear)}

(***************************************************************************)
(* The instants Date.now() can return: around the cooldown in Spec, and    *)
(* also a burst of frames 1/30 s apart in SpecE2E.                         *)
(***************************************************************************)
Times == {0, CooldownMs, CooldownMs + 1}
BurstTimes == {k * TickMs : k \in 0..MaxBurst} \cup Times

(***************************************************************************)
(* State.                                                                  *)
(***************************************************************************)
VARIABLES
  active,            \* the active prop of the component
  activeRef,         \* activeRef.current
  autoActionRef,     \* autoActionRef.current (and the autoAction state)
  error,             \* TRUE when the error state holds a message
  manualResult,      \* the manualResult state, NoResult for null
  detectorRef,       \* detectorRef.current: "null" or "ready" (a BarcodeDetector)
  lastScannedRef,    \* lastScannedRef.current, Null for null
  lastScanTimeRef,   \* lastScanTimeRef.current
  currentCornersRef, \* currentCornersRef.current, NoCorners for null
  requestRef,        \* requestRef.current: "zero", or the id of a "pending" or of a "stale" callback
  rafQueue,          \* number of animation-frame callbacks requested and neither run nor cancelled
  inflight,          \* ticks awaiting detect() that no deactivation has crossed
  staleInflight,     \* ticks awaiting detect() that were in flight at a deactivation
  cam,               \* where startCamera of the current activation stands
  stalePlay,         \* play() promises pending in onMetadata of torn-down activations
  out,               \* what the last step emitted
  streak,            \* history of the ticks since a fresh activation, or of the scan events
  resetPending,      \* a reset happened and no Detection was accepted since
  scannedData,       \* single-shot variant: the scannedData state, Null for null
  scannedDataRef,    \* single-shot variant: scannedDataRef.current
  isProcessing,      \* single-shot variant: the isProcessing state
  isProcessingRef,   \* single-shot variant: isProcessingRef.current
  timeouts           \* single-shot variant: payloads of the pending setTimeout callbacks

vars ==
  << active, activeRef, autoActionRef, error, manualResult, detectorRef,
     lastScannedRef, lastScanTimeRef, currentCornersRef,
     requestRef, rafQueue, inflight, staleInflight, cam, stalePlay,
     out, streak, resetPending,
     scannedData, scannedDataRef, isProcessing, isProcessingRef, timeouts >>

\* the state of the single-shot variant of the component
\* (src/components/Scanner.tsx, lines 634-899), which the tracking variant
\* does not have
singleVars == << scannedData, scannedDataRef, isProcessing, isProcessingRef, timeouts >>

\* the variables no tick touches
envVars ==
  << active, activeRef, autoActionRef, error, detectorRef, cam, stalePlay, singleVars >>

\* the variables only ticks and resets touch
scanVars == << lastScannedRef, lastScanTimeRef, currentCornersRef >>

\* the scheduling of ticks
loopVars == << requestRef, rafQueue, inflight, staleInflight >>

(***************************************************************************)
(* What a step emits.                                                      *)
(***************************************************************************)
Quiet ==
  [ step      |-> "none",    \* "tick": scanFrame ran to its end; "accept", "cancel": a button
    cancelled |-> FALSE,     \* the tick was in flight when a deactivation was processed
    accepted  |-> Null,      \* payload of the Detection that passed the focus gate
    event     |-> FALSE,     \* a scan event was triggered
    feedback  |-> FALSE,     \* triggerFeedback was called
    dispatch  |-> << >>,     \* the performAction calls, each with its arguments
    now       |-> 0,         \* what Date.now() returned, 0 when it was not called
    present   |-> FALSE,     \* setManualResult was called with a result
    render    |-> "none",    \* "cleared": canvas cleared only; "corners": corners drawn
    natThrew  |-> FALSE,     \* detect() rejected
    softThrew |-> FALSE,     \* the software decoder threw
    sched     |-> FALSE ]    \* the step requested an animation frame

Step(name) == [Quiet EXCEPT !.step = name]

\* the confirmation modal is in the document: it is rendered only by an
\* active component that shows no error
ModalOpen == active /\ ~error /\ manualResult # NoResult

(***************************************************************************)
(* History of the end-to-end scenario.                                     *)
(***************************************************************************)
Dead ==
  [ state |-> "dead",  \* "fresh": no tick accepted yet; "run": n ticks accepted the same payload
    n     |-> 0,       \* length of the run, counted up to MaxStreak
    data  |-> Null,    \* the payload of the run
    t0    |-> 0,       \* Date.now() of its first tick
    disp  |-> 0,       \* performAction calls during the run, counted up to 2
    first |-> FALSE,   \* the first tick of the run called performAction
    even  |-> FALSE,   \* the first MaxStreak ticks were TickMs apart
    drawn |-> FALSE ]  \* every tick of the run drew tracked corners
Fresh == [Dead EXCEPT !.state = "fresh"]

Min(a, b) == IF a < b THEN a ELSE b

\* the history of scan events, followed by SpecCooldown only
NoEvents ==
  [ state  |-> "events",
    data   |-> Null,     \* payload of the last scan event
    t      |-> 0,        \* Date.now() of the last scan event
    reset  |-> FALSE,    \* a deactivation or a dismissal happened since
    repeat |-> FALSE,    \* the scan event before it had the same payload, and
                         \* no reset happened between the two
    gap    |-> 0 ]       \* the time from that scan event to the last one

\* the history of scan events after a tick that ended with emission o
AfterEvent(h, o) ==
  IF ~o.event THEN h
  ELSE LET same == h.data = o.accepted /\ ~h.reset
       IN [ state |-> "events", data |-> o.accepted, t |-> o.now, reset |-> FALSE,
            repeat |-> same, gap |-> IF same THEN o.now - h.t ELSE 0 ]

\* the history after a step that is no tick: the scan events remember a reset
AfterOther(h, isReset) ==
  IF h.state = "events" THEN [h EXCEPT !.reset = h.reset \/ isReset] ELSE Dead

\* the history after a tick that ended with emission o at time now
AfterTick(o, now) ==
  LET d == Len(o.dispatch)
      shown == o.render = "corners"
  IN IF streak.state = "events" THEN AfterEvent(streak, o)
     ELSE IF streak.state = "dead" \/ o.softThrew THEN Dead
     ELSE IF o.accepted = Null
       THEN IF streak.state = "fresh" /\ ~o.event THEN Fresh ELSE Dead
     ELSE IF streak.state = "fresh"
       THEN [state |-> "run", n |-> 1, data |-> o.accepted, t0 |-> now,
             disp |-> d, first |-> (d = 1), even |-> TRUE, drawn |-> shown]
     ELSE IF o.accepted = streak.data /\ now - streak.t0 <= CooldownMs
       THEN [streak EXCEPT !.n = Min(streak.n + 1, MaxStreak),
                           !.disp = Min(streak.disp + d, 2),
                           !.even = IF streak.n < MaxStreak
                                    THEN streak.even /\ (now = streak.t0 + streak.n * TickMs)
                                    ELSE streak.even,
                           !.drawn = streak.drawn /\ shown]
     ELSE Dead

\* the single-shot variant's state where the tracking variant runs
NoSingle ==
  /\ scannedData = Null
  /\ scannedDataRef = Null
  /\ isProcessing = FALSE
  /\ isProcessingRef = FALSE
  /\ timeouts = << >>

(***************************************************************************)
(* Initial state: App mounts the component on the SCAN tab, so the first   *)
(* effects have run with active = true and startCamera was called.  The    *)
(* end-to-end history is followed by SpecE2E only.                         *)
(***************************************************************************)
Init ==
  /\ active = TRUE
  /\ activeRef = TRUE
  /\ autoActionRef \in BOOLEAN
  /\ error \in BOOLEAN
  /\ manualResult = NoResult
  /\ detectorRef = "null"
  /\ lastScannedRef = Null
  /\ lastScanTimeRef = 0
  /\ currentCornersRef = NoCorners
  /\ requestRef = "zero"
  /\ rafQueue = 0
  /\ inflight = 0
  /\ staleInflight = 0
  /\ cam = IF error THEN "off" ELSE "acquiring"
  /\ stalePlay = 0
  /\ out = Quiet
  /\ streak = Dead
  /\ resetPending = FALSE
  /\ NoSingle

(***************************************************************************)
(* requestAnimationFrame and cancelAnimationFrame on requestRef.           *)
(***************************************************************************)
\* the queue after `if (requestRef.current) cancelAnimationFrame(requestRef.current)`
CancelledQueue(ref, queue) == IF ref = "pending" THEN queue - 1 ELSE queue

\* requestRef after the same statement: the id stays, its callback is gone
CancelledRef(ref) == IF ref = "pending" THEN "stale" ELSE ref

(***************************************************************************)
(* The deduplication and the dispatch decision of scanFrame.               *)
(***************************************************************************)
\* a comparison that never finds the last payload again
isSameCodeNever(rawData, lastScanned) == FALSE

isSameCode(rawData, lastScanned) == rawData = lastScanned

\* a cooldown that ends at the limit instead of after it
isCooldownOverInclusive(now, lastScanTime) == (now - lastScanTime) >= CooldownMs

\* a cooldown measured in either direction of time
isCooldownOverEitherWay(now, lastScanTime) ==
  \/ (now - lastScanTime) > CooldownMs
  \/ (lastScanTime - now) > CooldownMs

isCooldownOver(now, lastScanTime) == (now - lastScanTime) > CooldownMs

\* a trigger that forgets the last payload
TriggersAlways(rawData, now, lastScanned, lastScanTime, modalOpen) == ~modalOpen

\* `if (!isSameCode || isCooldownOver)` then `if (!modalOpen)`
Triggers(rawData, now, lastScanned, lastScanTime, modalOpen) ==
  /\ ~isSameCode(rawData, lastScanned) \/ isCooldownOver(now, lastScanTime)
  /\ ~modalOpen

\* an action performed with the type of plain text
ActionCallsUntyped(fires, auto, rawData) ==
  IF fires /\ auto THEN << [data |-> rawData, type |-> "TEXT"] >> ELSE << >>

\* an action performed whatever the mode
ActionCallsAlways(fires, auto, rawData) ==
  IF fires THEN << [data |-> rawData, type |-> detectQRType(rawData)] >> ELSE << >>

\* `if (autoActionRef.current) performAction(rawData, type)`
ActionCalls(fires, auto, rawData) ==
  IF fires /\ auto THEN << [data |-> rawData, type |-> detectQRType(rawData)] >> ELSE << >>

\* `else setManualResult({ data: rawData, type })`
Presented(fires, auto, rawData, manual) ==
  IF fires /\ ~auto THEN [data |-> rawData, type |-> detectQRType(rawData)] ELSE manual

\* a decoder returned a code whose centre is in the focus area
InFocus(res) ==
  /\ res.kind = "code"
  /\ isPointInFocusArea(Center(res.points), videoWidth, videoHeight)

(***************************************************************************)
(* The two decoder steps of scanFrame: which of them run, and the          *)
(* Detection they leave in foundCode, rawData and points.                  *)
(*   usedNative: detectorRef.current was set, so detect() was awaited      *)
(*   nat, soft:  what the native and the software decoder answer           *)
(***************************************************************************)
DecoderChain(usedNative, nat, soft) ==
  LET natFound == usedNative /\ InFocus(nat)
      softRan == ~natFound             \* `if (!foundCode && pCanvas)`
      softFound == softRan /\ InFocus(soft)
  IN [ nativeRan |-> usedNative,
       softwareRan |-> softRan,
       natFound |-> natFound,
       softThrew |-> softRan /\ soft.kind = "throw",
       foundCode |-> natFound \/ softFound,
       rawData |-> IF natFound THEN nat.data ELSE soft.data,
       points |-> IF natFound THEN nat.points ELSE soft.points ]

(***************************************************************************)
(* scanFrame from the end of the native step to its return.                *)
(*   usedNative: detectorRef.current was set, so detect() was awaited      *)
(*   nat, soft:  what the native and the software decoder answer           *)
(*   wasCancelled: a deactivation was processed during the await           *)
(*   queue, ref: rafQueue and requestRef when the segment starts           *)
(*   now: what Date.now() returns (a wall clock: any instant)              *)
(***************************************************************************)
FinishTick(usedNative, nat, soft, wasCancelled, queue, ref, now) ==
  \* the decoders run once per tick, and so does the trigger test: each is
  \* bound to its value here, as scanFrame binds foundCode, rawData and points
  \E chain \in {DecoderChain(usedNative, nat, soft)} :
  \E fires \in { /\ chain.foundCode /\ Len(chain.points) > 0
                 /\ Triggers(chain.rawData, now, lastScannedRef, lastScanTimeRef,
                             ModalOpen) } :
  \* performAction raised: the exception leaves scanFrame at line 364
  \E actionThrew \in { /\ fires /\ autoActionRef
                       /\ performAction(chain.rawData, detectQRType(chain.rawData))
                            = "throw" } :
  LET natFound == chain.natFound
      softThrew == chain.softThrew
      foundCode == chain.foundCode
      rawData == chain.rawData
      points == chain.points
      o == [ step      |-> "tick",
             cancelled |-> wasCancelled,
             accepted  |-> IF foundCode /\ ~softThrew THEN rawData ELSE Null,
             event     |-> fires,
             feedback  |-> fires,
             dispatch  |-> ActionCalls(fires, autoActionRef, rawData),
             now       |-> IF foundCode THEN now ELSE 0,
             present   |-> fires /\ ~autoActionRef,
             render    |-> IF foundCode /\ ~softThrew THEN "corners" ELSE "cleared",
             natThrew  |-> usedNative /\ nat.kind = "throw",
             softThrew |-> softThrew,
             sched     |-> ~softThrew /\ ~actionThrew ]
  IN /\ out' = o
     /\ streak' = AfterTick(o, now)
     /\ IF softThrew
          THEN \* the exception leaves scanFrame: nothing after the decoder runs
               /\ UNCHANGED << scanVars, manualResult, resetPending >>
               /\ rafQueue' = queue
               /\ requestRef' = ref
          ELSE /\ currentCornersRef' = IF foundCode /\ Len(points) > 0
                                       THEN drawLensCorners(currentCornersRef, points)
                                       ELSE NoCorners
               /\ lastScannedRef' = IF fires THEN rawData ELSE lastScannedRef
               /\ lastScanTimeRef' = IF fires THEN now ELSE lastScanTimeRef
               /\ manualResult' = Presented(fires, autoActionRef, rawData, manualResult)
               /\ resetPending' = IF foundCode THEN FALSE ELSE resetPending
               /\ rafQueue' = IF actionThrew THEN queue ELSE queue + 1
               /\ requestRef' = IF actionThrew THEN ref ELSE "pending"

\* a video element that has current data whatever the camera does
CanBeReadyAlways == TRUE

\* the video element is mounted, has a stream and current data
CanBeReady == active /\ ~error /\ cam \in {"playing", "on", "playFailed"}

(***************************************************************************)
(* An animation-frame callback runs scanFrame up to its first await, or to *)
(* its end when there is none.                                             *)
(*   viaRef: the callback is the one requestRef names                      *)
(*   ready:  video, canvas and context exist and video.readyState >= 2     *)
(***************************************************************************)
TickFire(viaRef, ready, soft, now) ==
  LET queue == rafQueue - 1
      ref == IF viaRef THEN "stale" ELSE requestRef
  IN /\ rafQueue > 0
     /\ IF viaRef THEN requestRef = "pending"
                  ELSE rafQueue > (IF requestRef = "pending" THEN 1 ELSE 0)
     /\ ready => (activeRef /\ CanBeReady)
     /\ InFocus(soft) \/ now = 0        \* Date.now() is read for a found code only
     /\ UNCHANGED envVars
     /\ IF ~activeRef
          THEN \* `if (!activeRef.current) return`
               /\ soft = NotFound
               /\ rafQueue' = queue
               /\ requestRef' = ref
               /\ out' = Quiet
               /\ UNCHANGED << scanVars, manualResult, inflight, staleInflight, streak, resetPending >>
        ELSE IF ~ready
          THEN \* nothing to decode: only the next frame is requested
               /\ soft = NotFound
               /\ rafQueue' = queue + 1
               /\ requestRef' = "pending"
               /\ out' = [Step("tick") EXCEPT !.sched = TRUE]
               /\ streak' = AfterTick([Step("tick") EXCEPT !.sched = TRUE], now)
               /\ UNCHANGED << scanVars, manualResult, inflight, staleInflight, resetPending >>
        ELSE IF detectorRef = "ready"
          THEN \* `await detectorRef.current.detect(video)`
               /\ soft = NotFound
               /\ inflight' = inflight + 1
               /\ rafQueue' = queue
               /\ requestRef' = ref
               /\ out' = Quiet
               /\ UNCHANGED << scanVars, manualResult, staleInflight, streak, resetPending >>
        ELSE /\ FinishTick(FALSE, NotFound, soft, FALSE, queue, ref, now)
             /\ UNCHANGED << inflight, staleInflight >>

(***************************************************************************)
(* detect() settles and scanFrame resumes after the await.                 *)
(*   stale: the tick was in flight when a deactivation was processed       *)
(***************************************************************************)
DecodeComplete(stale, nat, soft, now) ==
  /\ IF stale THEN staleInflight > 0 ELSE inflight > 0
  /\ InFocus(nat) => soft = NotFound   \* the software decoder is not run
  /\ InFocus(nat) \/ InFocus(soft) \/ now = 0   \* Date.now() is read for a found code only
  /\ inflight' = IF stale THEN inflight ELSE inflight - 1
  /\ staleInflight' = IF stale THEN staleInflight - 1 ELSE staleInflight
  /\ UNCHANGED envVars
  /\ FinishTick(TRUE, nat, soft, stale, rafQueue, requestRef, now)

(***************************************************************************)
(* The buttons of the confirmation modal.                                  *)
(***************************************************************************)
\* closeManualResult
closeManualResult ==
  /\ manualResult' = NoResult
  /\ lastScannedRef' = Null

\* "Ac / Git": performAction(manualResult.data, manualResult.type); closeManualResult()
\* when performAction raises, closeManualResult is not reached
Accept ==
  /\ ModalOpen
  /\ out' = [Step("accept") EXCEPT !.dispatch = << manualResult >>]
  /\ IF performAction(manualResult.data, manualResult.type) = "throw"
       THEN UNCHANGED << manualResult, lastScannedRef, resetPending, streak >>
       ELSE /\ closeManualResult
            /\ resetPending' = TRUE
            /\ streak' = IF streak.state = "events" THEN AfterOther(streak, TRUE) ELSE streak
  /\ UNCHANGED << envVars, loopVars, lastScanTimeRef, currentCornersRef >>

\* "Iptal" and the X button: closeManualResult()
Cancel ==
  /\ ModalOpen
  /\ out' = Step("cancel")
  /\ closeManualResult
  /\ resetPending' = TRUE
  /\ streak' = IF streak.state = "events" THEN AfterOther(streak, TRUE) ELSE streak
  /\ UNCHANGED << envVars, loopVars, lastScanTimeRef, currentCornersRef >>

\* the auto-action toggle; the modal (z-index 60, inset 0) covers the
\* controls (z-index 50) while it is open
ToggleAuto ==
  /\ active /\ ~error /\ manualResult = NoResult
  /\ autoActionRef' = ~autoActionRef
  /\ out' = Quiet
  /\ streak' = AfterOther(streak, FALSE)
  /\ UNCHANGED singleVars
  /\ UNCHANGED << active, activeRef, error, detectorRef, cam, stalePlay,
                  scanVars, loopVars, manualResult, resetPending >>

(***************************************************************************)
(* Activation and deactivation: App switches the tab, the component        *)
(* re-renders with the new prop and its effects run in the same task.      *)
(***************************************************************************)
\* active becomes false: the cleanup of the camera effect (isMounted = false,
\* cancelAnimationFrame, track.stop), the activeRef effect, the effect body
Deactivate ==
  /\ active
  /\ active' = FALSE
  /\ activeRef' = FALSE
  /\ lastScannedRef' = Null
  /\ rafQueue' = CancelledQueue(requestRef, rafQueue)
  /\ requestRef' = CancelledRef(requestRef)
  /\ staleInflight' = staleInflight + inflight
  /\ inflight' = 0
  /\ stalePlay' = IF cam = "playing" THEN stalePlay + 1 ELSE stalePlay
  /\ cam' = "off"
  /\ out' = Quiet
  /\ streak' = AfterOther(streak, TRUE)
  /\ UNCHANGED singleVars
  /\ UNCHANGED << autoActionRef, error, manualResult, detectorRef,  lastScanTimeRef, currentCornersRef, resetPending >>

\* active becomes true: the activeRef effect, then startCamera up to its
\* first await (supported: navigator.mediaDevices.getUserMedia exists)
Activate(supported) ==
  /\ ~active
  /\ active' = TRUE
  /\ activeRef' = TRUE
  /\ error' = ~supported
  /\ cam' = IF supported THEN "acquiring" ELSE "off"
  /\ out' = Quiet
  /\ streak' = AfterOther(streak, FALSE)
  /\ resetPending' = TRUE
  /\ UNCHANGED singleVars
  /\ UNCHANGED << autoActionRef, manualResult, detectorRef, stalePlay,
                  scanVars, loopVars >>

\* getUserMedia settles for the current activation (ok: one of the two
\* attempts resolved with a stream; otherwise both rejected)
CameraDone(ok) ==
  /\ cam = "acquiring"
  /\ cam' = IF ok THEN "meta" ELSE "off"
  /\ error' = ~ok
  /\ out' = Quiet
  /\ UNCHANGED singleVars
  /\ UNCHANGED << active, activeRef, autoActionRef, manualResult, detectorRef,  stalePlay, scanVars, loopVars, streak, resetPending >>

\* loadedmetadata: onMetadata runs up to `await videoRef.current.play()`
LoadedMetadata ==
  /\ cam = "meta"
  /\ stalePlay < MaxStalePlay
  /\ cam' = "playing"
  /\ out' = Quiet
  /\ UNCHANGED singleVars
  /\ UNCHANGED << active, activeRef, autoActionRef, error, manualResult, detectorRef,
                   stalePlay, scanVars, loopVars, streak, resetPending >>

\* onMetadata after the await: on success the pending frame request is
\* cancelled and scanFrame is requested; a rejection is only logged
AfterPlay(ok) ==
  /\ ok => CancelledQueue(requestRef, rafQueue) + 1 + inflight + staleInflight <= MaxTicks
  /\ rafQueue' = IF ok THEN CancelledQueue(requestRef, rafQueue) + 1 ELSE rafQueue
  /\ requestRef' = IF ok THEN "pending" ELSE requestRef
  /\ out' = Quiet
  /\ UNCHANGED singleVars
  /\ UNCHANGED << active, activeRef, autoActionRef, error, manualResult, detectorRef,
                    scanVars, inflight, staleInflight, streak, resetPending >>

\* play() settles in the onMetadata of the current activation
PlayDone(ok) ==
  /\ cam = "playing"
  /\ cam' = IF ok THEN "on" ELSE "playFailed"
  /\ UNCHANGED stalePlay
  /\ AfterPlay(ok)

\* play() settles in the onMetadata of an activation that was torn down
\* during the await: isMounted is not read again
StalePlayDone(ok) ==
  /\ stalePlay > 0
  /\ stalePlay' = stalePlay - 1
  /\ UNCHANGED cam
  /\ AfterPlay(ok)

\* initDetector: getSupportedFormats resolves with a list that includes
\* 'qr_code'; without the API, or when the probe fails, the ref stays null
DetectorProbed ==
  /\ detectorRef = "null"
  /\ detectorRef' = "ready"
  /\ out' = Quiet
  /\ UNCHANGED singleVars
  /\ UNCHANGED << active, activeRef, autoActionRef, error, manualResult,  cam, stalePlay, scanVars, loopVars, streak, resetPending >>

\* the button of the error panel: window.location.reload()
Reload ==
  /\ active /\ error
  /\ active' = TRUE
  /\ activeRef' = TRUE
  /\ error' \in BOOLEAN
  /\ manualResult' = NoResult
  /\ detectorRef' = "null"
  /\ lastScannedRef' = Null
  /\ lastScanTimeRef' = 0
  /\ currentCornersRef' = NoCorners
  /\ requestRef' = "zero"
  /\ rafQueue' = 0
  /\ inflight' = 0
  /\ staleInflight' = 0
  /\ cam' = IF error' THEN "off" ELSE "acquiring"
  /\ stalePlay' = 0
  /\ out' = Quiet
  /\ streak' = IF streak.state = "events" THEN NoEvents ELSE Dead
  /\ resetPending' = FALSE
  /\ UNCHANGED << autoActionRef, singleVars >>

Next ==
  \/ \E viaRef \in BOOLEAN, ready \in BOOLEAN, soft \in DecodeResults, now \in Times :
       TickFire(viaRef, ready, soft, now)
  \/ \E stale \in BOOLEAN, nat \in DecodeResults, soft \in DecodeResults, now \in Times :
       DecodeComplete(stale, nat, soft, now)
  \/ Accept
  \/ Cancel
  \/ ToggleAuto
  \/ Deactivate
  \/ \E supported \in BOOLEAN : Activate(supported)
  \/ \E ok \in BOOLEAN : CameraDone(ok)
  \/ LoadedMetadata
  \/ \E ok \in BOOLEAN : PlayDone(ok)
  \/ \E ok \in BOOLEAN : StalePlayDone(ok)
  \/ DetectorProbed
  \/ Reload

Spec == Init /\ [][Next]_vars

(***************************************************************************)
(* The end-to-end scenario: the page has loaded in auto mode, the camera   *)
(* starts, and the scanner stays active while frames arrive.               *)
(***************************************************************************)
InitE2E ==
  /\ active = TRUE
  /\ activeRef = TRUE
  /\ autoActionRef = TRUE
  /\ error = FALSE
  /\ manualResult = NoResult
  /\ detectorRef = "null"
  /\ lastScannedRef = Null
  /\ lastScanTimeRef = 0
  /\ currentCornersRef = NoCorners
  /\ requestRef = "zero"
  /\ rafQueue = 0
  /\ inflight = 0
  /\ staleInflight = 0
  /\ cam = "acquiring"
  /\ stalePlay = 0
  /\ out = Quiet
  /\ streak = Fresh
  /\ resetPending = FALSE
  /\ NoSingle

NextE2E ==
  \/ \E ready \in BOOLEAN, soft \in E2EResults, now \in BurstTimes :
       TickFire(TRUE, ready, soft, now)
  \/ \E nat \in E2EResults, soft \in E2EResults, now \in BurstTimes :
       DecodeComplete(FALSE, nat, soft, now)
  \/ CameraDone(TRUE)
  \/ LoadedMetadata
  \/ PlayDone(TRUE)
  \/ DetectorProbed

SpecE2E == InitE2E /\ [][NextE2E]_vars

(***************************************************************************)
(* The corner tracker alone: drawLensCorners and the statement that clears *)
(* currentCornersRef, applied to any sequence of corner points.  Here out  *)
(* records the call: the variant of the component, the tracker before the  *)
(* call, the points passed, the number of smoothing updates since the last *)
(* snap and whether tracking was lost before.                              *)
(***************************************************************************)
TrackerIdle(variant) ==
  [ step |-> "none", variant |-> variant, depth |-> 0, hist |-> "none",
    prev |-> NoCorners, points |-> NoCorners ]

InitTracker ==
  /\ active = TRUE
  /\ activeRef = TRUE
  /\ autoActionRef = TRUE
  /\ error = FALSE
  /\ manualResult = NoResult
  /\ detectorRef = "null"
  /\ lastScannedRef = Null
  /\ lastScanTimeRef = 0
  /\ currentCornersRef \in {NoCorners} \cup GridPoses
  /\ requestRef = "zero"
  /\ rafQueue = 0
  /\ inflight = 0
  /\ staleInflight = 0
  /\ cam = "on"
  /\ stalePlay = 0
  /\ out \in {TrackerIdle("tracking"), TrackerIdle("early")}
  /\ streak = Dead
  /\ resetPending = FALSE
  /\ NoSingle

\* `drawLensCorners(ctx, points)`
TrackerUpdate(points) ==
  /\ currentCornersRef = NoCorners \/ out.depth < MaxSmooth
  /\ currentCornersRef' = IF out.variant = "early"
                            THEN drawLensCornersEarly(currentCornersRef, points)
                            ELSE drawLensCorners(currentCornersRef, points)
  /\ out' = [ step |-> "update", variant |-> out.variant,
              depth |-> IF currentCornersRef = NoCorners THEN 0 ELSE out.depth + 1,
              hist |-> IF out.hist = "lost" THEN "reacquired" ELSE "tracked",
              prev |-> currentCornersRef, points |-> points ]
  /\ UNCHANGED << envVars, loopVars, manualResult, lastScannedRef, lastScanTimeRef,
                  streak, resetPending >>

\* `currentCornersRef.current = null` (in drawIdleState in the earliest variant)
TrackerLose ==
  /\ out.step # "lose"
  /\ currentCornersRef' = NoCorners
  /\ out' = [ step |-> "lose", variant |-> out.variant, depth |-> 0,
              hist |-> IF out.hist = "none" THEN "none" ELSE "lost",
              prev |-> currentCornersRef, points |-> NoCorners ]
  /\ UNCHANGED << envVars, loopVars, manualResult, lastScannedRef, lastScanTimeRef,
                  streak, resetPending >>

NextTracker ==
  \/ \E points \in GridPoses : TrackerUpdate(points)
  \/ TrackerLose

SpecTracker == InitTracker /\ [][NextTracker]_vars

(***************************************************************************)
(* The decoder steps alone, on any pair of answers.  Here out records the  *)
(* answers and, once the steps have run, what they left.                   *)
(***************************************************************************)
InitDecode ==
  /\ active = TRUE
  /\ activeRef = TRUE
  /\ autoActionRef = TRUE
  /\ error = FALSE
  /\ manualResult = NoResult
  /\ detectorRef \in {"null", "ready"}
  /\ lastScannedRef = Null
  /\ lastScanTimeRef = 0
  /\ currentCornersRef = NoCorners
  /\ requestRef = "zero"
  /\ rafQueue = 0
  /\ inflight = 0
  /\ staleInflight = 0
  /\ cam = "on"
  /\ stalePlay = 0
  /\ out \in [ step : {"none"}, nat : E2EResults, soft : E2EResults,
                chain : {DecoderChain(FALSE, NotFound, NotFound)} ]
  /\ streak = Dead
  /\ resetPending = FALSE
  /\ NoSingle

\* scanFrame, `// 1. Native BarcodeDetector` and `// 2. Fallback jsQR`
DecodeFrame ==
  /\ out.step = "none"
  /\ out' = [out EXCEPT !.step = "decode",
                         !.chain = DecoderChain(detectorRef = "ready", out.nat, out.soft)]
  /\ UNCHANGED << envVars, scanVars, loopVars, manualResult, streak, resetPending >>

NextDecode == DecodeFrame

SpecDecode == InitDecode /\ [][NextDecode]_vars

(***************************************************************************)
(* The focus gate alone, on frames of several sizes and on codes centred   *)
(* on, next to and away from the edges of the focus area; and the ticks of *)
(* a playing scanner whose decoders return only codes the gate rejects.    *)
(* Here out first holds the frame and the corner points of a code, then    *)
(* the gate's answer.                                                      *)
(***************************************************************************)
\* widths and heights of the frame, in pixels
FrameSizes == {1, 3, videoWidth}

\* coordinates along a side of L pixels, in tenths: the ends, the middle,
\* and the two edges of the focus area with their neighbours
AxisCoords(L) ==
  {0, 2 * L - 1, 2 * L, 2 * L + 1, 5 * L, 8 * L - 1, 8 * L, 8 * L + 1, 10 * L}

\* the corners of a code of 20 px centred at (cx, cy)
SquareAround(cx, cy) == Square(cx - 100, cy - 100)

FocusFrames ==
  UNION { { [ step |-> "frame", width |-> W, height |-> H,
              points |-> SquareAround(cx, cy), found |-> FALSE ] :
            cx \in AxisCoords(W), cy \in AxisCoords(H) } :
          W \in FrameSizes, H \in FrameSizes }

\* what the decoders return when every code is outside the focus area
RejectedResults == {NotFound, Code(PayloadA, PoseEdge), Code(PayloadB, PoseEdge)}

InitFocus ==
  /\ active = TRUE
  /\ activeRef = TRUE
  /\ autoActionRef \in BOOLEAN
  /\ error = FALSE
  /\ manualResult = NoResult
  /\ detectorRef = "null"
  /\ lastScannedRef = Null
  /\ lastScanTimeRef = 0
  /\ currentCornersRef = NoCorners
  /\ requestRef = "pending"
  /\ rafQueue = 1
  /\ inflight = 0
  /\ staleInflight = 0
  /\ cam = "on"
  /\ stalePlay = 0
  /\ out \in FocusFrames
  /\ streak = Dead
  /\ resetPending = FALSE
  /\ NoSingle

\* scanFrame: the center of corner 0 and corner 2, and
\* `if (isPointInFocusArea(center, video.videoWidth, video.videoHeight))`
GateApply ==
  /\ out.step = "frame"
  /\ out' = [out EXCEPT !.step = "gate",
                         !.found = isPointInFocusArea(Center(out.points), out.width, out.height)]
  /\ UNCHANGED << envVars, scanVars, loopVars, manualResult, streak, resetPending >>

NextFocus ==
  \/ GateApply
  \/ \E ready \in BOOLEAN, soft \in RejectedResults :
       TickFire(TRUE, ready, soft, 0)
  \/ \E nat \in RejectedResults, soft \in RejectedResults :
       DecodeComplete(FALSE, nat, soft, 0)
  \/ DetectorProbed

SpecFocus == InitFocus /\ [][NextFocus]_vars

(***************************************************************************)
(* The dispatch alone: a playing scanner, in either mode, whose decoders   *)
(* return a URL that opens and a URL that window.open cannot parse.        *)
(***************************************************************************)
DispatchResults ==
  { NotFound, Code(PayloadA, PoseCentre), Code(PayloadB, PoseCentre),
    Code(PayloadBad, PoseCentre) }

InitDispatch ==
  /\ active = TRUE
  /\ activeRef = TRUE
  /\ autoActionRef \in BOOLEAN
  /\ error = FALSE
  /\ manualResult = NoResult
  /\ detectorRef = "null"
  /\ lastScannedRef = Null
  /\ lastScanTimeRef = 0
  /\ currentCornersRef = NoCorners
  /\ requestRef = "pending"
  /\ rafQueue = 1
  /\ inflight = 0
  /\ staleInflight = 0
  /\ cam = "on"
  /\ stalePlay = 0
  /\ out = Quiet
  /\ streak = Dead
  /\ resetPending = FALSE
  /\ NoSingle

NextDispatch ==
  \/ \E ready \in BOOLEAN, soft \in DispatchResults, now \in Times :
       TickFire(TRUE, ready, soft, now)
  \/ \E nat \in DispatchResults, soft \in DispatchResults, now \in Times :
       DecodeComplete(FALSE, nat, soft, now)
  \/ Accept
  \/ Cancel
  \/ ToggleAuto
  \/ DetectorProbed

SpecDispatch == InitDispatch /\ [][NextDispatch]_vars

(***************************************************************************)
(* detectQRType alone, on pairs of payloads: every prefix it knows, the    *)
(* same prefixes in another case, cut short or after a blank, each with    *)
(* nothing or with some text after it.  Here out holds the two payloads    *)
(* and then their types.                                                   *)
(***************************************************************************)
QRTypes == {"URL", "TEXT", "EMAIL", "PHONE", "WIFI", "GEO"}

ClassifyHeads ==
  { << >>,
    <<"h","t","t","p",":","/","/">>, <<"h","t","t","p","s",":","/","/">>,
    <<"w","w","w",".">>, <<"m","a","i","l","t","o",":">>, <<"t","e","l",":">>,
    <<"W","I","F","I",":">>, <<"g","e","o",":">>,
    <<"H","T","T","P",":","/","/">>, <<"W","w","w",".">>, <<"w","i","f","i",":">>,
    <<"G","E","O",":">>, <<"T","e","l",":">>,
    <<"h","t","t","p",":","/">>, <<"h","t","t","p","s",":","/">>,
    <<"m","a","i","l","t","o">>, <<"w","w","w">>,
    <<" ","h","t","t","p",":","/","/">> }

ClassifyTails == { << >>, <<"a">>, <<"a","b","c","d">>, <<"a","b","c","d","e">> }

ClassifyPayloads == { h \o t : h \in ClassifyHeads, t \in ClassifyTails }

InitClassify ==
  /\ active = TRUE
  /\ activeRef = TRUE
  /\ autoActionRef = TRUE
  /\ error = FALSE
  /\ manualResult = NoResult
  /\ detectorRef = "null"
  /\ lastScannedRef = Null
  /\ lastScanTimeRef = 0
  /\ currentCornersRef = NoCorners
  /\ requestRef = "zero"
  /\ rafQueue = 0
  /\ inflight = 0
  /\ staleInflight = 0
  /\ cam = "on"
  /\ stalePlay = 0
  /\ out \in [ step : {"payloads"}, p : ClassifyPayloads, q : ClassifyPayloads,
                tp : {"NONE"}, tq : {"NONE"} ]
  /\ streak = Dead
  /\ resetPending = FALSE
  /\ NoSingle

\* `detectQRType(data)`, once for each payload: it reads its argument only
\* and assigns nothing
Classify ==
  /\ out.step = "payloads"
  /\ out' = [out EXCEPT !.step = "classify",
                         !.tp = detectQRType(out.p),
                         !.tq = detectQRType(out.q)]
  /\ UNCHANGED << envVars, scanVars, loopVars, manualResult, streak, resetPending >>

NextClassify == Classify

SpecClassify == InitClassify /\ [][NextClassify]_vars

(***************************************************************************)
(* The WiFi round trip: the generator builds the payload of a network, the *)
(* scanner classifies it and, for the type WIFI, the dispatcher copies the *)
(* password it matches.  Here out holds the configuration, then the        *)
(* payload, then its type and what was copied.                             *)
(***************************************************************************)
\* the values of the encryption field
Encryptions == { <<"W","P","A">>, <<"W","E","P">>, <<"n","o","p","a","s","s">> }

\* network names and passwords without ";"
Ssids == { << >>, <<"n">>, <<"A","P">>, <<"A","P",":","1">>, <<"P",":">>, <<"S",":","n">> }
Passes == { << >>, <<"s">>, <<"P",":","s">>, <<"a",":","b">>, <<"P">> }

InitWifi ==
  /\ active = TRUE
  /\ activeRef = TRUE
  /\ autoActionRef = TRUE
  /\ error = FALSE
  /\ manualResult = NoResult
  /\ detectorRef = "null"
  /\ lastScannedRef = Null
  /\ lastScanTimeRef = 0
  /\ currentCornersRef = NoCorners
  /\ requestRef = "zero"
  /\ rafQueue = 0
  /\ inflight = 0
  /\ staleInflight = 0
  /\ cam = "on"
  /\ stalePlay = 0
  /\ out \in [ step : {"config"}, encryption : Encryptions, ssid : Ssids, pass : Passes,
                data : {Null}, type : {"NONE"}, copied : {Null} ]
  /\ streak = Dead
  /\ resetPending = FALSE
  /\ NoSingle

\* Generator: setQrValue(generateWifiString(ssid, password, encryption))
WifiGenerate ==
  /\ out.step = "config"
  /\ out' = [out EXCEPT !.step = "generated",
                         !.data = generateWifiString(out.ssid, out.pass, out.encryption)]
  /\ UNCHANGED << envVars, scanVars, loopVars, manualResult, streak, resetPending >>

\* the payload is scanned: detectQRType(rawData), then performAction, whose
\* case WIFI copies passMatch[1] when there is a match
WifiScan ==
  /\ out.step = "generated"
  /\ out' = [out EXCEPT !.step = "scanned",
                         !.type = detectQRType(out.data),
                         !.copied = IF detectQRType(out.data) = "WIFI"
                                      THEN passMatch(out.data) ELSE Null]
  /\ UNCHANGED << envVars, scanVars, loopVars, manualResult, streak, resetPending >>

NextWifi == WifiGenerate \/ WifiScan

SpecWifi == InitWifi /\ [][NextWifi]_vars

(***************************************************************************)
(* The scan events of a scanner that is used in every way: the same steps  *)
(* as Spec, with the history of scan events followed.                      *)
(***************************************************************************)
InitCooldown ==
  /\ active = TRUE
  /\ activeRef = TRUE
  /\ autoActionRef \in BOOLEAN
  /\ error = FALSE
  /\ manualResult = NoResult
  /\ detectorRef = "null"
  /\ lastScannedRef = Null
  /\ lastScanTimeRef = 0
  /\ currentCornersRef = NoCorners
  /\ requestRef = "zero"
  /\ rafQueue = 0
  /\ inflight = 0
  /\ staleInflight = 0
  /\ cam = "acquiring"
  /\ stalePlay = 0
  /\ out = Quiet
  /\ streak = NoEvents
  /\ resetPending = FALSE
  /\ NoSingle

\* what the decoders return here: no code, or one of two payloads in focus
CooldownResults == {NotFound, Code(PayloadA, PoseCentre), Code(PayloadB, PoseCentre)}

NextCooldown ==
  \/ \E ready \in BOOLEAN, soft \in CooldownResults, now \in Times :
       TickFire(TRUE, ready, soft, now)
  \/ \E stale \in BOOLEAN, nat \in CooldownResults, soft \in CooldownResults, now \in Times :
       DecodeComplete(stale, nat, soft, now)
  \/ Accept
  \/ Cancel
  \/ ToggleAuto
  \/ Deactivate
  \/ Activate(TRUE)
  \/ CameraDone(TRUE)
  \/ LoadedMetadata
  \/ PlayDone(TRUE)
  \/ StalePlayDone(TRUE)
  \/ DetectorProbed

SpecCooldown == InitCooldown /\ [][NextCooldown]_vars

(***************************************************************************)
(* The feedback: triggerFeedback alone, in each mode and on each kind of   *)
(* host; and the ticks of a playing scanner, which call it.  Here out      *)
(* first holds the mode and the host, then what was emitted.               *)
(***************************************************************************)
FeedbackCases ==
  [ step : {"mode"}, mode : FeedbackModes, hasVibrate : BOOLEAN, hasAudio : BOOLEAN,
    pulse : {FALSE}, tone : {FALSE} ]

InitFeedback ==
  /\ active = TRUE
  /\ activeRef = TRUE
  /\ autoActionRef \in BOOLEAN
  /\ error = FALSE
  /\ manualResult = NoResult
  /\ detectorRef = "null"
  /\ lastScannedRef = Null
  /\ lastScanTimeRef = 0
  /\ currentCornersRef = NoCorners
  /\ requestRef = "pending"
  /\ rafQueue = 1
  /\ inflight = 0
  /\ staleInflight = 0
  /\ cam = "on"
  /\ stalePlay = 0
  /\ out \in FeedbackCases
  /\ streak = Dead
  /\ resetPending = FALSE
  /\ NoSingle

\* `triggerFeedback()`
FeedbackApply ==
  /\ out.step = "mode"
  /\ LET emitted == triggerFeedback(out.mode, out.hasVibrate, out.hasAudio)
     IN out' = [out EXCEPT !.step = "feedback",
                            !.pulse = emitted.pulse, !.tone = emitted.tone]
  /\ UNCHANGED << envVars, scanVars, loopVars, manualResult, streak, resetPending >>

NextFeedback ==
  \/ FeedbackApply
  \/ \E ready \in BOOLEAN, soft \in DispatchResults, now \in Times :
       TickFire(TRUE, ready, soft, now)
  \/ \E nat \in DispatchResults, soft \in DispatchResults, now \in Times :
       DecodeComplete(FALSE, nat, soft, now)
  \/ Accept
  \/ Cancel
  \/ ToggleAuto
  \/ DetectorProbed

SpecFeedback == InitFeedback /\ [][NextFeedback]_vars

(***************************************************************************)
(* The single-shot variant of the component (src/components/Scanner.tsx,   *)
(* lines 634-899): scanFrame stops after a successful decode, handleScan   *)
(* delays the action by 800 ms, resetScan starts the next scan.  It shares *)
(* active, activeRef, error, requestRef, rafQueue, cam, stalePlay and out  *)
(* with the tracking variant; a state update made outside an effect is     *)
(* committed, and the effects that depend on it run, in a later step.      *)
(***************************************************************************)
\* the variables only the tracking variant has
trackVars ==
  << autoActionRef, manualResult, detectorRef, lastScannedRef, lastScanTimeRef,
     currentCornersRef, inflight, staleInflight, streak, resetPending >>

\* a payload of blanks
PayloadBlank == <<" ", " ">>

\* String.prototype.trim, for blanks
RECURSIVE Trim(_)
Trim(str) ==
  IF str = << >> THEN str
  ELSE IF Head(str) = " " THEN Trim(Tail(str))
  ELSE IF str[Len(str)] = " " THEN Trim(SubSeq(str, 1, Len(str) - 1))
  ELSE str

\* `if (code && code.data && code.data.trim() !== "")`
IsScan(res) == res.kind = "code" /\ res.data # << >> /\ Trim(res.data) # << >>

\* getImageData raised: outside the try block of scanFrame
ReadThrows == [kind |-> "readThrow", data |-> Null, points |-> NoCorners]

\* what one frame yields: no code, an exception of jsQR, an exception of
\* getImageData, a code with a payload, a code with blanks or with nothing
SingleResults ==
  { NotFound, Throws, ReadThrows, Code(PayloadA, PoseCentre), Code(PayloadB, PoseCentre),
    Code(PayloadBlank, PoseCentre), Code(<< >>, PoseCentre) }

\* what a step of the single-shot variant emits
SingleQuiet ==
  [ step     |-> "none",   \* "tick", "timeout", "reset"
    decoded  |-> FALSE,    \* jsQR was run on a frame
    code     |-> Null,     \* the payload jsQR returned
    scanned  |-> FALSE,    \* handleScan was called
    dispatch |-> << >>,    \* the performAction calls, each with its arguments
    sched    |-> FALSE ]   \* the step requested an animation frame

InitSingle ==
  /\ active = TRUE
  /\ activeRef = TRUE
  /\ autoActionRef = TRUE
  /\ error = FALSE
  /\ manualResult = NoResult
  /\ detectorRef = "null"
  /\ lastScannedRef = Null
  /\ lastScanTimeRef = 0
  /\ currentCornersRef = NoCorners
  /\ requestRef = "zero"
  /\ rafQueue = 0
  /\ inflight = 0
  /\ staleInflight = 0
  /\ cam = "acquiring"
  /\ stalePlay = 0
  /\ out = SingleQuiet
  /\ streak = Dead
  /\ resetPending = FALSE
  /\ scannedData = Null
  /\ scannedDataRef = Null
  /\ isProcessing = FALSE
  /\ isProcessingRef = FALSE
  /\ timeouts = << >>

\* scanFrame of the single-shot variant, one animation-frame callback
\*   viaRef: the callback is the one requestRef names
\*   ready:  video, canvas and context exist and the video has enough data
\*   res:    what the frame yields
SingleTick(viaRef, ready, res) ==
  LET queue == rafQueue - 1
      ref == IF viaRef THEN "stale" ELSE requestRef
      skip == ~activeRef \/ scannedDataRef # Null \/ isProcessingRef
      scan == ~skip /\ ready /\ IsScan(res)
      resched == ~skip /\ ~scan /\ res.kind # "readThrow"
  IN /\ rafQueue > 0
     /\ IF viaRef THEN requestRef = "pending"
                  ELSE rafQueue > (IF requestRef = "pending" THEN 1 ELSE 0)
     /\ ready => (~skip /\ CanBeReady)
     /\ ~ready => res = NotFound
     /\ scan => Len(timeouts) < MaxTimeouts
     /\ rafQueue' = IF resched THEN queue + 1 ELSE queue
     /\ requestRef' = IF resched THEN "pending" ELSE ref
     \* handleScan
     /\ scannedData' = IF scan THEN res.data ELSE scannedData
     /\ isProcessing' = IF scan THEN TRUE ELSE isProcessing
     /\ timeouts' = IF scan THEN Append(timeouts, res.data) ELSE timeouts
     /\ out' = [ step |-> "tick",
                 decoded |-> ready /\ res.kind # "readThrow",
                 code |-> IF ready /\ res.kind = "code" THEN res.data ELSE Null,
                 scanned |-> scan,
                 dispatch |-> << >>,
                 sched |-> resched ]
     /\ UNCHANGED << active, activeRef, error, cam, stalePlay,
                     scannedDataRef, isProcessingRef, trackVars >>

\* the callback of `setTimeout(..., 800)` in handleScan; when performAction
\* raises, setIsProcessing(false) is not reached
SingleTimeout ==
  /\ timeouts # << >>
  /\ LET data == Head(timeouts)
         type == detectQRType(data)
     IN /\ out' = [SingleQuiet EXCEPT !.step = "timeout",
                                      !.dispatch = << [data |-> data, type |-> type] >>]
        /\ isProcessing' = IF performAction(data, type) = "throw" THEN isProcessing ELSE FALSE
  /\ timeouts' = Tail(timeouts)
  /\ UNCHANGED << active, activeRef, error, cam, stalePlay, requestRef, rafQueue,
                  scannedData, scannedDataRef, isProcessingRef, trackVars >>

\* resetScan, the button of the result panel; the panel is rendered when
\* the scannedData state has been committed
resetScan ==
  /\ active /\ ~error /\ scannedData # Null /\ scannedDataRef # Null
  /\ rafQueue < MaxTicks
  /\ scannedData' = Null
  /\ isProcessing' = FALSE
  /\ rafQueue' = rafQueue + 1
  /\ requestRef' = "pending"
  /\ out' = [SingleQuiet EXCEPT !.step = "reset", !.sched = TRUE]
  /\ UNCHANGED << active, activeRef, error, cam, stalePlay,
                  scannedDataRef, isProcessingRef, timeouts, trackVars >>

\* the effects of a commit in which active is nowActive: the refs are
\* synchronised; when active or scannedData changed, the camera effect is
\* cleaned up (isMounted = false, cancelAnimationFrame, the tracks stopped)
\* and run again (startCamera up to its first await, or cancelAnimationFrame)
SingleEffects(nowActive) ==
  LET camChanged == nowActive # activeRef \/ scannedData # scannedDataRef
      starts == nowActive /\ scannedData = Null
  IN /\ activeRef' = nowActive
     /\ scannedDataRef' = scannedData
     /\ isProcessingRef' = isProcessing
     /\ IF camChanged
          THEN /\ rafQueue' = CancelledQueue(requestRef, rafQueue)
               /\ requestRef' = CancelledRef(requestRef)
               /\ stalePlay' = IF cam = "playing" THEN stalePlay + 1 ELSE stalePlay
               /\ cam' = IF starts THEN "acquiring" ELSE "off"
               /\ error' = IF starts THEN FALSE ELSE error
          ELSE UNCHANGED << rafQueue, requestRef, stalePlay, cam, error >>

\* React commits the state updates of a tick, of a timeout or of resetScan
SingleCommit ==
  /\ scannedData # scannedDataRef \/ isProcessing # isProcessingRef
  /\ SingleEffects(active)
  /\ out' = SingleQuiet
  /\ UNCHANGED << active, scannedData, isProcessing, timeouts, trackVars >>

\* App changes the active prop: the component renders and its effects run
SingleSetActive(nowActive) ==
  /\ active # nowActive
  /\ active' = nowActive
  /\ SingleEffects(nowActive)
  /\ out' = SingleQuiet
  /\ UNCHANGED << scannedData, isProcessing, timeouts, trackVars >>

\* getUserMedia settles for the current run of the camera effect
SingleCameraDone(ok) ==
  /\ cam = "acquiring"
  /\ cam' = IF ok THEN "meta" ELSE "off"
  /\ error' = ~ok
  /\ out' = SingleQuiet
  /\ UNCHANGED << active, activeRef, stalePlay, requestRef, rafQueue, singleVars, trackVars >>

\* onloadedmetadata: videoRef.current.play() is called
SingleLoadedMetadata ==
  /\ cam = "meta"
  /\ stalePlay < MaxStalePlay
  /\ cam' = "playing"
  /\ out' = SingleQuiet
  /\ UNCHANGED << active, activeRef, error, stalePlay, requestRef, rafQueue,
                  singleVars, trackVars >>

\* play() settles: `.then` requests scanFrame, `.catch` sets the error;
\* neither reads isMounted
\*   stale: the camera effect was cleaned up after play() was called
SinglePlayDone(stale, ok) ==
  /\ IF stale THEN stalePlay > 0 ELSE cam = "playing"
  /\ ok => rafQueue < MaxTicks
  /\ stalePlay' = IF stale THEN stalePlay - 1 ELSE stalePlay
  /\ cam' = IF stale THEN cam ELSE IF ok THEN "on" ELSE "playFailed"
  /\ rafQueue' = IF ok THEN rafQueue + 1 ELSE rafQueue
  /\ requestRef' = IF ok THEN "pending" ELSE requestRef
  /\ error' = IF ok THEN error ELSE TRUE
  /\ out' = [SingleQuiet EXCEPT !.sched = ok]
  /\ UNCHANGED << active, activeRef, singleVars, trackVars >>

NextSingle ==
  \/ \E viaRef \in BOOLEAN, ready \in BOOLEAN, res \in SingleResults :
       SingleTick(viaRef, ready, res)
  \/ SingleTimeout
  \/ resetScan
  \/ SingleCommit
  \/ \E nowActive \in BOOLEAN : SingleSetActive(nowActive)
  \/ \E ok \in BOOLEAN : SingleCameraDone(ok)
  \/ SingleLoadedMetadata
  \/ \E stale \in BOOLEAN, ok \in BOOLEAN : SinglePlayDone(stale, ok)

SpecSingle == InitSingle /\ [][NextSingle]_vars

(***************************************************************************)
(* Properties.                                                             *)
(***************************************************************************)
\* a confirmation is pending: manualResult holds a result
Locked == manualResult # NoResult

\* C1: a tick that accepts a Detection with payload p at time now while no
\* confirmation is pending triggers a scan event, and sets lastPayload to p
\* and lastAcceptedAt to now, iff lastPayload is None, or p differs from
\* lastPayload, or now - lastAcceptedAt > 2000; otherwise (also at exactly
\* 2000) it triggers nothing and leaves the scan memory unchanged.
C1_DedupDecision ==
  [][ (out'.step = "tick" /\ out'.accepted # Null /\ ~Locked) =>
        LET p == out'.accepted
            now == out'.now
            should == \/ lastScannedRef = Null
                      \/ p # lastScannedRef
                      \/ now - lastScanTimeRef > 2000
        IN /\ out'.event = should
           /\ should => (lastScannedRef' = p /\ lastScanTimeRef' = now)
           /\ ~should => UNCHANGED << lastScannedRef, lastScanTimeRef >> ]_vars

\* C1, witness: the payload of the last acceptance was accepted again exactly
\* 2000 ms after it and triggered nothing
C1_Witness ==
  /\ out.step = "tick" /\ ~out.event /\ ~Locked
  /\ out.accepted = lastScannedRef
  /\ out.now - lastScanTimeRef = 2000

\* C2: in auto mode, from a freshly loaded scanner, while every tick accepts
\* the same payload and no more than 2000 ms have passed since the first of
\* them: performAction was called exactly once, by the first tick, and every
\* tick drew the tracked corners.
C2_OneDispatchPerRun ==
  streak.state = "run" =>
    /\ streak.disp = 1
    /\ streak.first
    /\ streak.drawn
    /\ currentCornersRef # NoCorners

\* C2, witness: five consecutive ticks, 1/30 s apart, accepted the same payload
C2_Witness ==
  /\ streak.state = "run" /\ streak.n = 5 /\ streak.even
  /\ out.step = "tick" /\ out.dispatch = << >> /\ out.render = "corners"

\* C3: a tick that was in flight when a deactivation was processed does
\* nothing when its decode completes: it accepts no Detection, triggers no
\* event, no feedback, no dispatch, no confirmation, and draws no corners.
C3_LateDecodeDiscarded ==
  (out.step = "tick" /\ out.cancelled) =>
    /\ out.accepted = Null
    /\ ~out.event
    /\ ~out.feedback
    /\ out.dispatch = << >>
    /\ ~out.present
    /\ out.render # "corners"

\* C4: at any moment at most one tick is scheduled or executing.
C4_TicksSequential == rafQueue + inflight + staleInflight <= 1

\* C5: while the scanner is inactive no tick is scheduled.
C5_NoTickWhileInactive == ~active => rafQueue = 0

\* C6: a tick during which a decoder raised an exception still ends by
\* scheduling the next tick.
C6_DecoderErrorsContained ==
  (out.step = "tick" /\ (out.natThrew \/ out.softThrew)) => out.sched

\* C7: every tick that runs while the scanner is active ends by scheduling
\* the next tick.
C7_TickAlwaysReschedules == (out.step = "tick" /\ activeRef) => out.sched

\* C8: in manual-confirm mode a scan event performs no action and presents
\* its payload and type; in auto mode it performs the action once and
\* presents nothing; an accept performs the action once, with the presented
\* payload and type; a cancel performs none; no other step performs one.
C8_DispatchByMode ==
  [][ LET o == out'
          result == [data |-> o.accepted, type |-> detectQRType(o.accepted)]
      IN /\ (o.step = "tick" /\ o.event /\ ~autoActionRef) =>
              /\ o.dispatch = << >>
              /\ o.present
              /\ manualResult' = result
         /\ (o.step = "tick" /\ o.event /\ autoActionRef) =>
              /\ o.dispatch = << result >>
              /\ ~o.present
              /\ manualResult' = manualResult
         /\ o.step = "accept" => (Locked /\ o.dispatch = << manualResult >>)
         /\ o.step = "cancel" => o.dispatch = << >>
         /\ o.dispatch # << >> =>
              \/ o.step = "accept"
              \/ o.step = "tick" /\ o.event /\ autoActionRef ]_vars

\* C8, witness: the user accepted a presented confirmation
C8_Witness == out.step = "accept" /\ Len(out.dispatch) = 1

\* C9: while a confirmation is pending no tick triggers a scan event: no
\* feedback, no change of the scan memory, no change of the confirmation.
C9_LockedUntilDismissed ==
  [][ (Locked /\ out'.step = "tick") =>
        /\ ~out'.event
        /\ ~out'.feedback
        /\ UNCHANGED << lastScannedRef, lastScanTimeRef, manualResult >> ]_vars

\* C10: the first Detection accepted after a reset (a dismissed confirmation,
\* or a deactivation followed by an activation) triggers a scan event.
C10_ResetAllowsRescan ==
  [][ (resetPending /\ out'.step = "tick" /\ out'.accepted # Null) => out'.event ]_vars

\* C11: the deactivation clears the tracker: when active turns false,
\* currentCornersRef is null afterwards.
C11_DeactivationClearsTracker ==
  [][ (active /\ ~active') => currentCornersRef' = NoCorners ]_vars

\* C12: the deactivation discards a pending confirmation: when active turns
\* false, manualResult is null afterwards.
C12_DeactivationDiscardsConfirmation ==
  [][ (active /\ ~active') => manualResult' = NoResult ]_vars

\* C13: a deactivation, and a dismissal of the confirmation by accept or
\* cancel, reset both fields of the scan memory to their initial values.
C13_ResetClearsBothFields ==
  [][ ((active /\ ~active') \/ out'.step \in {"accept", "cancel"}) =>
        (lastScannedRef' = Null /\ lastScanTimeRef' = 0) ]_vars

\* C14: a tick that leaves lastPayload as it was never decreases
\* lastAcceptedAt, whatever the clock returns; when it changes it, it raises
\* it by more than 2000 ms.
C14_AcceptedAtMonotone ==
  [][ (out'.step = "tick" /\ lastScannedRef' = lastScannedRef) =>
        /\ lastScanTimeRef' >= lastScanTimeRef
        /\ lastScanTimeRef' # lastScanTimeRef =>
             lastScanTimeRef' - lastScanTimeRef > 2000 ]_vars

\* C14, witness: the clock went backwards on a tick that accepted the last
\* payload again, and the scan memory kept its time
C14_Witness ==
  /\ out.step = "tick" /\ out.accepted # Null /\ out.accepted = lastScannedRef
  /\ ~out.event
  /\ out.now < lastScanTimeRef

\* C15: at the end of every tick run while the scanner is active, the
\* tracker holds corners and corners are drawn if the tick accepted a
\* Detection; otherwise the tracker is null and no corners are drawn.
C15_TrackerFollowsAcceptance ==
  (out.step = "tick" /\ active) =>
    IF out.accepted # Null
      THEN currentCornersRef # NoCorners /\ out.render = "corners"
      ELSE currentCornersRef = NoCorners /\ out.render # "corners"

\* C16: an update of a null tracker stores exactly the points it is given,
\* all four corners, also when corners were tracked before the loss.
C16_SnapOnAcquisition ==
  (out.step = "update" /\ out.prev = NoCorners) =>
    /\ Len(currentCornersRef) = 4
    /\ \A i \in 1..4 : currentCornersRef[i] = out.points[i]

\* C16, witness: corners were tracked, lost, and acquired again at other points
C16_Witness ==
  /\ out.step = "update" /\ out.prev = NoCorners /\ out.hist = "reacquired"
  /\ currentCornersRef = out.points

\* the blend factor of the variant that made the last call, in tenths
FactorOf(variant) == IF variant = "early" THEN SmoothFactorEarly ELSE SmoothFactor

\* coordinate c lies between a and b, both excluded
StrictlyBetween(c, a, b) == (a < c /\ c < b) \/ (b < c /\ c < a)

\* coordinate next is prev + (target - prev) * f / 10, to the tenth of a pixel
Blended(next, prev, target, f) ==
  LET exact == 10 * prev + (target - prev) * f
  IN /\ 10 * next <= exact
     /\ exact < 10 * next + 10

\* C17 as stated: an update of a tracker that holds corners sets every
\* coordinate of every corner to prev + (points2 - prev) * factor, and every
\* such coordinate lies strictly between prev and points2.
C17_BlendStrictlyBetween ==
  (out.step = "update" /\ out.prev # NoCorners) =>
    \A i \in 1..4 :
      /\ Blended(currentCornersRef[i].x, out.prev[i].x, out.points[i].x, FactorOf(out.variant))
      /\ Blended(currentCornersRef[i].y, out.prev[i].y, out.points[i].y, FactorOf(out.variant))
      /\ StrictlyBetween(currentCornersRef[i].x, out.prev[i].x, out.points[i].x)
      /\ StrictlyBetween(currentCornersRef[i].y, out.prev[i].y, out.points[i].y)

\* a coordinate that did not have to move stays, one that had to moves
\* strictly between, where the blend is a whole number of tenths
BetweenOrEqual(next, prev, target, f) ==
  IF target = prev THEN next = prev
  ELSE ((target - prev) * f) % 10 = 0 => StrictlyBetween(next, prev, target)

\* C17, amended: an update of a tracker that holds corners sets every
\* coordinate of every corner to prev + (points2 - prev) * factor; the
\* coordinate lies strictly between prev and points2 when they differ, and
\* equals both when they are equal.
C17_BlendBetween ==
  (out.step = "update" /\ out.prev # NoCorners) =>
    \A i \in 1..4 :
      /\ Blended(currentCornersRef[i].x, out.prev[i].x, out.points[i].x, FactorOf(out.variant))
      /\ Blended(currentCornersRef[i].y, out.prev[i].y, out.points[i].y, FactorOf(out.variant))
      /\ BetweenOrEqual(currentCornersRef[i].x, out.prev[i].x, out.points[i].x, FactorOf(out.variant))
      /\ BetweenOrEqual(currentCornersRef[i].y, out.prev[i].y, out.points[i].y, FactorOf(out.variant))

\* C17, witness: a second smoothing update in a row moved a corner in x
\* and left it in y
C17_Witness ==
  /\ out.step = "update" /\ out.depth = 2
  /\ currentCornersRef[1].x # out.prev[1].x
  /\ currentCornersRef[1].y = out.prev[1].y /\ out.points[1].y = out.prev[1].y

\* the native step yielded nothing: it was not run, it threw, or it found no code
NativeYieldedNothing == ~out.chain.nativeRan \/ out.nat.kind \in {"none", "throw"}

\* C18: the native decoder runs iff it was initialised; the software decoder
\* runs only when the native step yielded nothing; a code the native decoder
\* returns is the tick's Detection and the software decoder is not run; when
\* both yield nothing the tick has no Detection.
C18_DecoderOrder ==
  out.step = "decode" =>
    /\ out.chain.nativeRan <=> detectorRef = "ready"
    /\ out.chain.softwareRan => NativeYieldedNothing
    /\ ~NativeYieldedNothing =>
         /\ ~out.chain.softwareRan
         /\ out.chain.foundCode
         /\ out.chain.rawData = out.nat.data /\ out.chain.points = out.nat.points
    /\ (NativeYieldedNothing /\ out.soft.kind \in {"none", "throw"}) =>
         ~out.chain.foundCode

\* the center the gate is asked about: the midpoint of corner 0 and corner 2
GateCenter ==
  Pt((out.points[1].x + out.points[3].x) \div 2, (out.points[1].y + out.points[3].y) \div 2)

\* C19: the gate accepts a code iff the midpoint of its corners 0 and 2 lies
\* strictly inside 0.2*W < x < 0.8*W, 0.2*H < y < 0.8*H (coordinates in
\* tenths of a pixel); and a tick whose codes are all rejected accepts none:
\* no tracker update, no change of the scan memory, no feedback, no dispatch.
C19_FocusGate ==
  /\ out.step = "gate" =>
       (out.found <=> /\ 2 * out.width < GateCenter.x
                      /\ GateCenter.x < 8 * out.width
                      /\ 2 * out.height < GateCenter.y
                      /\ GateCenter.y < 8 * out.height)
  /\ out.step = "tick" =>
       /\ out.accepted = Null
       /\ out.render # "corners"
       /\ currentCornersRef = NoCorners
       /\ ~out.event /\ ~out.feedback /\ out.dispatch = << >> /\ ~out.present
       /\ lastScannedRef = Null /\ lastScanTimeRef = 0

\* C19, witness: a code centred exactly on the left edge of the focus area
\* of a 100 px frame, at mid height, was rejected
C19_Witness ==
  /\ out.step = "gate" /\ ~out.found
  /\ out.width = videoWidth /\ out.height = videoHeight
  /\ GateCenter.x = 2 * out.width
  /\ GateCenter.y = 5 * out.height

\* C20: for every frame size the gate accepts a center at the middle of the
\* frame and rejects a center at any of the four corners of the frame.
C20_MidpointInCornersOut ==
  out.step = "gate" =>
    /\ (GateCenter.x = 5 * out.width /\ GateCenter.y = 5 * out.height) => out.found
    /\ (/\ GateCenter.x \in {0, 10 * out.width}
        /\ GateCenter.y \in {0, 10 * out.height}) => ~out.found

\* C20, witness: the middle of the smallest frame, 1 px by 1 px, was accepted
C20_Witness ==
  /\ out.step = "gate" /\ out.found
  /\ out.width = 1 /\ out.height = 1
  /\ GateCenter.x = 5 /\ GateCenter.y = 5

\* C21: once the error state holds a message, every step but the reload of
\* the error panel keeps it: the message stays, the camera is not acquired
\* again, no tick is scheduled, and no step triggers a scan event, a
\* confirmation or a dispatch.
C21_ErrorTerminal ==
  [][ error =>
        \/ Reload
        \/ /\ error'
           /\ cam' = "off"
           /\ rafQueue' = 0
           /\ ~out'.event /\ ~out'.present /\ out'.dispatch = << >> ]_vars

\* C22: a tick that calls performAction ends by scheduling the next tick,
\* also when performAction raises; and the call is not repeated: the next
\* tick that accepts the same payload within the cooldown calls nothing.
C22_DispatchFailureContained ==
  (out.step = "tick" /\ out.dispatch # << >>) =>
    /\ out.sched
    /\ rafQueue > 0
    /\ lastScannedRef = out.accepted

\* the first n characters of s, all of s when it is shorter
Take(s, n) == SubSeq(s, 1, Min(n, Len(s)))

\* the type the claim gives a payload
TypeByPrefix(p) ==
  LET has(n, prefix) == Take(p, n) = prefix
      url == \/ has(7, <<"h","t","t","p",":","/","/">>)
             \/ has(8, <<"h","t","t","p","s",":","/","/">>)
             \/ has(4, <<"w","w","w",".">>)
  IN CASE url -> "URL"
       [] ~url /\ has(7, <<"m","a","i","l","t","o",":">>) -> "EMAIL"
       [] ~url /\ has(4, <<"t","e","l",":">>) -> "PHONE"
       [] ~url /\ has(5, <<"W","I","F","I",":">>) -> "WIFI"
       [] ~url /\ has(4, <<"g","e","o",":">>) -> "GEO"
       [] OTHER -> "TEXT"

\* C23: detectQRType returns one of the six types for every payload; the
\* type is URL iff the payload starts with "http://", "https://" or "www.",
\* otherwise EMAIL iff "mailto:", PHONE iff "tel:", WIFI iff "WIFI:", GEO iff
\* "geo:", and TEXT in every other case, exact in case; two payloads that
\* agree on their first 8 characters get the same type; the call changes
\* nothing else.
C23_ClassifyByPrefix ==
  [][ out'.step = "classify" =>
        /\ out'.tp \in QRTypes /\ out'.tq \in QRTypes
        /\ out'.tp = TypeByPrefix(out.p)
        /\ out'.tq = TypeByPrefix(out.q)
        /\ Take(out.p, 8) = Take(out.q, 8) => out'.tp = out'.tq
        /\ out'.p = out.p /\ out'.q = out.q
        /\ UNCHANGED << envVars, scanVars, loopVars, manualResult >> ]_vars

\* C23, witness: "HTTP://a" and "HTTP://abcd", which agree on their first 8
\* characters and carry the URL prefix in upper case, were both classified
\* as TEXT
C23_Witness ==
  /\ out.step = "classify"
  /\ out.p = <<"H","T","T","P",":","/","/","a">>
  /\ out.q = <<"H","T","T","P",":","/","/","a","b","c","d">>
  /\ Take(out.p, 8) = Take(out.q, 8)
  /\ out.tp = "TEXT" /\ out.tq = "TEXT"

\* C24: for every encryption value and every ssid and pass without ";", the
\* generated payload is classified as WIFI and the password the dispatcher
\* matches in it is the pass it was generated from.
C24_WifiRoundTrip ==
  out.step = "scanned" => (out.type = "WIFI" /\ out.copied = out.pass)

\* C25: a tick is scheduled while none is scheduled or executing only by the
\* play() of the current activation resolving; and the play() of an
\* activation that was torn down during the await schedules and cancels
\* nothing when it settles.
C25_LoopStartsAfterInit ==
  [][ /\ (rafQueue + inflight + staleInflight = 0 /\ rafQueue' > 0) =>
           (active /\ cam = "playing" /\ cam' = "on")
      /\ (\E ok \in BOOLEAN : StalePlayDone(ok)) =>
           UNCHANGED << rafQueue, requestRef >> ]_vars

\* C26: every performAction call carries the type detectQRType gives its
\* payload; a call made by a tick carries the payload that tick accepted; a
\* call made by the accept button carries the presented payload, which is
\* the payload of the scan event that presented it.
C26_DispatchCarriesType ==
  [][ /\ \A i \in 1..Len(out'.dispatch) :
           LET call == out'.dispatch[i]
           IN /\ call.type = detectQRType(call.data)
              /\ out'.step = "tick" => (out'.event /\ call.data = out'.accepted)
              /\ out'.step = "accept" => call = manualResult
              /\ out'.step \in {"tick", "accept"}
      /\ (manualResult' # manualResult /\ manualResult' # NoResult) =>
           /\ out'.step = "tick" /\ out'.event
           /\ manualResult'.data = out'.accepted
           /\ manualResult'.type = detectQRType(out'.accepted) ]_vars

\* C26, witness: a tick dispatched a geo payload with the type GEO
C26_Witness ==
  /\ out.step = "tick" /\ out.accepted = PayloadB
  /\ out.dispatch = << [data |-> PayloadB, type |-> "GEO"] >>

\* C27: when two consecutive scan events carry the same payload and no
\* deactivation and no dismissal of a confirmation happened between them,
\* more than 2000 ms passed from the first to the second; the scan memory
\* holds the payload and the time of the last scan event, or no payload
\* after a reset.
C27_CooldownProtectsLast ==
  /\ streak.repeat => streak.gap > 2000
  /\ lastScannedRef = (IF streak.reset THEN Null ELSE streak.data)
  /\ lastScanTimeRef = streak.t

\* C27, witness: the same payload triggered two scan events 2001 ms apart,
\* with nothing between them
C27_Witness ==
  /\ out.step = "tick" /\ out.event
  /\ streak.repeat /\ streak.gap = 2001 /\ streak.data = PayloadA

\* a tick calls triggerFeedback iff it triggers a scan event, and then the
\* scan memory already holds the event: also when the dispatch that follows
\* raises
FeedbackTiedToEvent ==
  out.step = "tick" =>
    /\ out.feedback <=> out.event
    /\ out.feedback => (lastScannedRef = out.accepted /\ lastScanTimeRef = out.now)
    /\ (out.dispatch # << >> \/ out.present) => out.feedback

\* C28 as stated: a tick calls triggerFeedback iff it triggers a scan event,
\* after the scan memory was updated; triggerFeedback emits nothing in
\* SILENT mode, a haptic pulse and no tone in VIBRATE mode, a haptic pulse
\* and a tone in SOUND mode.
C28_FeedbackPerEvent ==
  /\ FeedbackTiedToEvent
  /\ out.step = "feedback" =>
       /\ out.mode = "SILENT" => (~out.pulse /\ ~out.tone)
       /\ out.mode = "VIBRATE" => (out.pulse /\ ~out.tone)
       /\ out.mode = "SOUND" => (out.pulse /\ out.tone)

\* C28, amended: the same, but the pulse is emitted only on a host that
\* offers vibration and the tone only on a host that offers audio.
C28_FeedbackWhereOffered ==
  /\ FeedbackTiedToEvent
  /\ out.step = "feedback" =>
       /\ out.mode = "SILENT" => (~out.pulse /\ ~out.tone)
       /\ out.mode = "VIBRATE" => ((out.pulse <=> out.hasVibrate) /\ ~out.tone)
       /\ out.mode = "SOUND" => ((out.pulse <=> out.hasVibrate) /\ (out.tone <=> out.hasAudio))

\* C28, witness: in SOUND mode on a host without vibration, a tone was
\* emitted and no pulse
C28_Witness ==
  /\ out.step = "feedback" /\ out.mode = "SOUND" /\ ~out.hasVibrate
  /\ out.tone /\ ~out.pulse

\* the frame source can have a current frame: the video element is in the
\* document and a stream was attached to it
SourceAttached == active /\ ~error /\ cam \in {"playing", "on", "playFailed"}

\* C29: a tick that starts while the frame source has no current frame
\* invokes no decoder; a tick that invokes no decoder draws nothing,
\* triggers no scan event, no feedback, no dispatch and no confirmation,
\* leaves the scan memory and the tracker as they are, and schedules the
\* next tick.
C29_NotReadyTickIdles ==
  [][ /\ inflight' > inflight => SourceAttached
      /\ (/\ ~SourceAttached
          /\ out'.step = "tick"
          /\ inflight' + staleInflight' = inflight + staleInflight) =>
           out'.render = "none"
      /\ (out'.step = "tick" /\ out'.render = "none") =>
           /\ ~out'.natThrew /\ ~out'.softThrew /\ out'.accepted = Null
           /\ ~out'.event /\ ~out'.feedback /\ out'.dispatch = << >> /\ ~out'.present
           /\ UNCHANGED << lastScannedRef, lastScanTimeRef, currentCornersRef,
                           manualResult, inflight, staleInflight >>
           /\ out'.sched /\ rafQueue' = rafQueue /\ requestRef' = "pending" ]_vars

\* C29, witness: a tick found the playing source without a current frame
\* after a payload had been scanned; the scan memory still holds it and the
\* next tick is scheduled
C29_Witness ==
  /\ out.step = "tick" /\ out.render = "none" /\ out.sched
  /\ cam = "on" /\ lastScannedRef = PayloadA /\ requestRef = "pending"

\* C30: in the single-shot variant, from a decode that calls handleScan
\* until resetScan, no tick is scheduled and no frame is decoded; handleScan
\* leaves one delayed action, which calls performAction once with the
\* scanned payload, and no other step removes or adds one; a payload that
\* is empty or blank is no scan and its tick schedules the next one.
C30_SingleShotStops ==
  [][ /\ scannedData' # Null => rafQueue' = 0
      /\ (scannedData # Null /\ out'.step = "tick") => ~out'.decoded
      /\ (out'.step = "tick" /\ out'.scanned) =>
           /\ scannedData = Null
           /\ scannedData' = out'.code
           /\ timeouts' = Append(timeouts, out'.code)
      /\ out'.step = "timeout" =>
           /\ out'.dispatch = << [data |-> Head(timeouts), type |-> detectQRType(Head(timeouts))] >>
           /\ timeouts' = Tail(timeouts)
      /\ (out'.step \notin {"timeout", "tick"} \/ (out'.step = "tick" /\ ~out'.scanned)) =>
           (timeouts' = timeouts /\ out'.dispatch = << >>)
      /\ (out'.step = "tick" /\ out'.decoded /\ out'.code # Null /\ Trim(out'.code) = << >>) =>
           (~out'.scanned /\ out'.sched /\ scannedData' = scannedData) ]_vars

====
